---- MODULE Spec2Model ----
(***************************************************************************)
(* Round harness of the FEDzk experiments.                                 *)
(*                                                                         *)
(*   src/src/fedzk/experiments/attacks.py   AttackConfig, label_for_client *)
(*   src/src/fedzk/experiments/hooks.py     backend adapter and run_round  *)
(*   src/spec/experiments/round_runner.py   the round loop that writes the *)
(*                                          round transcripts              *)
(*                                                                         *)
(* A behaviour is one invocation of one entry point: either a call of      *)
(* hooks.run_round(cfg, round_idx) or a run of round_runner.main(cfg).     *)
(* The proof backend is the environment: every invocation returns an exit  *)
(* status and an elapsed time chosen nondeterministically.                 *)
(*                                                                         *)
(* Representation.  A Python str that the code builds by formatting or     *)
(* concatenation is a sequence of characters or tokens; None is <<>> and   *)
(* a present optional value x is <<x>>.  A time is an integer: elapsed     *)
(* times in thousandths of a millisecond, rounded (2 decimals) times in    *)
(* hundredths.  fraction_malicious is the numerator of a fraction with     *)
(* denominator FracDen; products are exact (binary rounding of the float   *)
(* product is not modelled).                                               *)
(***************************************************************************)
EXTENDS Integers, Sequences, FiniteSets, TLC

VARIABLES
    cfg,          \* the configuration dict (input, read-only)
    DIRECT,       \* hooks.DIRECT, read from the environment at import
    pc,           \* position of the running entry point
    round_idx,    \* run_round: parameter round_idx
    attempt,      \* _call_cli_verify_batch: index of the loop over attempts
    rc_g,         \* run_round: rc_g
    rc_p,         \* round_runner.main: rc_p
    rc_v,         \* rc_v (run_round and round_runner.main)
    prove_ms,     \* prove_ms as returned by the backend call
    verify_ms,    \* verify_ms as returned by the backend call
    roles,        \* run_round: the values taken by `role`, in loop order
    results,      \* run_round: the returned list, <<>> before the return
    r,            \* round_runner.main: loop variable
    written,      \* round_runner.main: the write_text calls, in order
    events,       \* backend invocations and log records of the round in
                  \* progress, in order
    now,          \* the wall clock, in ticks
    runs,         \* round_runner.ART of every round_runner process started
    atk,          \* run_attacks.main: position in ATTACKS, 0 outside it
    files,        \* the transcript files under artifacts/, with their writer
    vdir,         \* validate_transcripts: the round_*.json files of run_dir
    todo,         \* validate_transcripts: the files the loop has yet to visit
    errors,       \* validate_transcripts.main: errors
    doc,          \* table_timings: j, the transcript read, None before
    rows          \* table_timings: rows

\* the state outside one round_runner process
drv == <<now, runs, atk, files>>

\* the state of the offline tools
tool == <<vdir, todo, errors, doc, rows>>

vars == <<cfg, DIRECT, pc, round_idx, attempt, rc_g, rc_p, rc_v, prove_ms,
          verify_ms, roles, results, r, written, events, drv, tool>>

-----------------------------------------------------------------------------
(* Bounds of the model *)

MaxClients == 4
MaxRounds == 2
MaxRoundIdx == 1
FracDen == 4
MaxNow == 3
TicksPerSecond == 2
MaxFiles == 2
MaxN == 5

\* exit statuses a backend process can return
ExitCodes == {0, 1, 2}
\* elapsed times of a backend call, in thousandths of a millisecond
Elapsed == {0, 125}

-----------------------------------------------------------------------------
(* Values *)

None == <<>>
Some(x) == <<x>>

Range(s) == {s[i] : i \in 1..Len(s)}

\* str(n) for n >= 0: the decimal digits, most significant first
RECURSIVE Digits(_)
Digits(n) ==
    IF n < 10 THEN <<n>> ELSE Digits(n \div 10) \o <<n % 10>>

\* the number a digit sequence denotes
RECURSIVE DigitsValue(_)
DigitsValue(s) ==
    IF s = <<>> THEN 0
    ELSE 10 * DigitsValue(SubSeq(s, 1, Len(s) - 1)) + s[Len(s)]

PadWidth == 3

RECURSIVE ZeroFill(_, _)
ZeroFill(s, w) == IF Len(s) >= w THEN s ELSE ZeroFill(<<0>> \o s, w)

\* a file name without the zero padding
TranscriptName_Unpadded(n) == <<"round_">> \o Digits(n) \o <<".json">>

\* f"round_{r:03d}.json"
TranscriptName(n) == <<"round_">> \o ZeroFill(Digits(n), PadWidth) \o <<".json">>

\* f"c{i}"
ClientId(i) == <<"c">> \o Digits(i)

\* int(x) of the quotient n/d, d > 0: truncation toward zero
IntTrunc(n, d) == IF n >= 0 THEN n \div d ELSE -((-n) \div d)

\* round(n/d, 2) in hundredths, n/d being given in hundredths: nearest, ties to even
Round2(n, d) ==
    LET q == n \div d
        m == n % d
    IN  IF 2 * m < d THEN q
        ELSE IF 2 * m > d THEN q + 1
        ELSE IF q % 2 = 0 THEN q ELSE q + 1

-----------------------------------------------------------------------------
(* attacks.py *)

\* AttackConfig.from_cfg: a missing attack section gives the defaults
from_cfg(c) ==
    IF c.attack = None
    THEN [kind |-> "none", fraction_malicious |-> 0]
    ELSE [kind |-> c.attack[1].kind,
          fraction_malicious |-> c.attack[1].fraction_malicious]

\* a cutoff that is off by one: idx <= cutoff
label_for_client_OffByOne(idx, total, ac) ==
    IF ac.kind = "none" \/ ac.fraction_malicious <= 0
    THEN "honest"
    ELSE LET cutoff == IntTrunc(total * ac.fraction_malicious, FracDen)
         IN  IF idx <= cutoff THEN "malicious" ELSE "honest"

label_for_client(idx, total, ac) ==
    IF ac.kind = "none" \/ ac.fraction_malicious <= 0
    THEN "honest"
    ELSE LET cutoff == IntTrunc(total * ac.fraction_malicious, FracDen)
         IN  IF idx < cutoff THEN "malicious" ELSE "honest"

-----------------------------------------------------------------------------
(* hooks.py *)

HAVE_DIRECT == FALSE

Call(op, n, rc) == [kind |-> "call", what |-> op, round |-> n, rc |-> rc]
Log(level, n, rc) == [kind |-> "log", what |-> level, round |-> n, rc |-> rc]

\* _call_cli_verify_batch: the batch invocation forms, in order
attempts == <<"verify-batch", "verify --batch">>

use_zk(c) == c.zk.enabled
signatures_only(c) == c.signatures

\* the events of one backend call made by _call_cli_generate/_call_cli_verify
CliCall(op, n, rc) ==
    IF rc # 0 THEN <<Call(op, n, rc), Log("error", n, rc)>>
    ELSE <<Call(op, n, rc)>>

\* a loop that logs nothing when an attempt fails
BatchAttempt_Silent(op, n, rc) == <<Call(op, n, rc)>>

\* one iteration of the loop of _call_cli_verify_batch: its events
BatchAttempt(op, n, rc) ==
    IF rc = 0 THEN <<Call(op, n, rc)>>
    ELSE <<Call(op, n, rc), Log("warning", n, rc)>>

\* a verify_batch that returns the last batch status without the fallback
BatchNext_NoFallback(a, rc) ==
    IF rc = 0 THEN "build"
    ELSE IF a < Len(attempts) THEN "verify_batch"
    ELSE "build"

\* where _call_cli_verify_batch goes after attempt number a returned rc
BatchNext(a, rc) ==
    IF rc = 0 THEN "build"
    ELSE IF a < Len(attempts) THEN "verify_batch"
    ELSE "verify"

\* a round that skips the verify call when generate failed
AfterGenerate_SkipOnFailure(c, g) ==
    IF g # 0 THEN "build"
    ELSE IF c.zk.batch_verify THEN "verify_batch" ELSE "verify"

\* run_round: the verify call that follows generate, whatever rc_g is
AfterGenerate(c, g) ==
    IF c.zk.batch_verify THEN "verify_batch" ELSE "verify"

\* run_round: ok = rc_g == 0 and rc_v == 0
RoundOk(g, v) == g = 0 /\ v = 0

\* a reject_reason set whatever ok is
RejectReason_Always(ok, role) == Some(<<"verify_failed", "|", role>>)

\* run_round: reject_reason of a client of a zk round
RejectReason(ok, role) ==
    IF ok THEN None ELSE Some(<<"verify_failed", "|", role>>)

\* round(ms / clients if clients else ms, 2)
Apportion(ms, clients) ==
    IF clients # 0 THEN Round2(ms, 10 * clients) ELSE Round2(ms, 10)

\* run_round, CLI path: the record of client i
CliResult(i, clients, ok, pms, vms, role) ==
    [id |-> ClientId(i),
     proof_ok |-> ok,
     prove_ms |-> Apportion(pms, clients),
     verify_ms |-> Apportion(vms, clients),
     proof_size |-> 0,
     commitment |-> None,
     reject_reason |-> RejectReason(ok, role)]

\* run_round, signatures-only and plain paths: the record of client i
SynthResult(i) ==
    [id |-> ClientId(i),
     proof_ok |-> TRUE,
     prove_ms |-> 0,
     verify_ms |-> 0,
     proof_size |-> 0,
     commitment |-> None,
     reject_reason |-> None]

\* clients = int(cfg.get("clients", 1)); range(clients) is empty below 1
NClients(c) == IF c.clients > 0 THEN c.clients ELSE 0

RolesOf(c) ==
    [k \in 1..NClients(c) |-> label_for_client(k - 1, c.clients, from_cfg(c))]

\* run_round, direct path: ok = True, the timings of an empty block
DirectResults(c, pms, vms) ==
    [k \in 1..NClients(c) |->
        CliResult(k - 1, c.clients, TRUE, pms, vms, RolesOf(c)[k])]

CliResults(c, g, v, pms, vms) ==
    [k \in 1..NClients(c) |->
        CliResult(k - 1, c.clients, RoundOk(g, v), pms, vms, RolesOf(c)[k])]

SynthResults(c) == [k \in 1..NClients(c) |-> SynthResult(k - 1)]

-----------------------------------------------------------------------------
(* round_runner.py, module level *)

\* datetime.now().strftime("%Y%m%d-%H%M%S"): the time cut to whole seconds
Stamp(t) == t \div TicksPerSecond

\* ROOT / "artifacts" / <stamp>
ArtDir(t) == <<"artifacts", Stamp(t)>>

\* ART of the round_runner process that runs
ART == runs[Len(runs)]

\* ART / "transcripts" / f"round_{r:03d}.json", written by this process
RunFile(n) == [dir |-> ART, name |-> TranscriptName(n), owner |-> Len(runs)]

-----------------------------------------------------------------------------
(* validate_transcripts.py *)

\* the properties the transcript schema requires
RequiredFields == <<"round", "clients", "accepted_clients">>

\* a round_*.json file: a JSON document that lacks some required
\* properties, or text that is not JSON (parses = FALSE)
StoredFiles(n) ==
    {[name |-> TranscriptName(n), parses |-> TRUE, missing |-> m] :
        m \in SUBSET Range(RequiredFields)}
    \cup {[name |-> TranscriptName(n), parses |-> FALSE, missing |-> {}]}

\* the directories of up to MaxFiles files round_000.json, round_001.json, ..
RunDirs ==
    UNION {{{f[k] : k \in 1..n} :
              f \in {g \in [1..n -> UNION {StoredFiles(k - 1) : k \in 1..n}] :
                        \A k \in 1..n : g[k] \in StoredFiles(k - 1)}}
             : n \in 0..MaxFiles}

\* sorted(v.iter_errors(j), key=lambda e: e.path): one error per missing
\* required property, all at the root path, in the order of the schema
Violations(f) ==
    SelectSeq(RequiredFields, LAMBDA p : p \in f.missing)

\* errors.append(f"{p.name}: {e.message}") for e in errs
Entries(f) ==
    [k \in 1..Len(Violations(f)) |->
        <<f.name, ":", Violations(f)[k], "is a required property">>]

\* main up to the loop: the schema is loaded, glob lists the files
ValidateEnter ==
    /\ pc = "validate"
    /\ todo' = vdir
    /\ errors' = <<>>
    /\ pc' = "v_loop"
    /\ UNCHANGED <<cfg, DIRECT, round_idx, attempt, rc_g, rc_p, rc_v,
                   prove_ms, verify_ms, roles, results, r, written, events,
                   drv, vdir, doc, rows>>

\* one iteration of the loop, glob giving the files in any order;
\* json.loads raises on a file that is not JSON and main does not catch it
ValidateFile ==
    /\ pc = "v_loop"
    /\ \E p \in todo :
        IF p.parses
        THEN /\ errors' = errors \o Entries(p)
             /\ todo' = todo \ {p}
             /\ pc' = "v_loop"
        ELSE /\ pc' = "v_crash"
             /\ UNCHANGED <<errors, todo>>
    /\ UNCHANGED <<cfg, DIRECT, round_idx, attempt, rc_g, rc_p, rc_v,
                   prove_ms, verify_ms, roles, results, r, written, events,
                   drv, vdir, doc, rows>>

\* after the loop: SystemExit with the list, or "All transcripts valid."
ValidateReport ==
    /\ pc = "v_loop"
    /\ todo = {}
    /\ pc' = IF errors # <<>> THEN "v_invalid" ELSE "v_valid"
    /\ UNCHANGED <<cfg, DIRECT, round_idx, attempt, rc_g, rc_p, rc_v,
                   prove_ms, verify_ms, roles, results, r, written, events,
                   drv, tool>>

-----------------------------------------------------------------------------
(* table_timings.py *)

\* the timings a client document of a transcript holds: prove_ms and
\* verify_ms in hundredths of a millisecond, or no timing at all
StoredClients ==
    {[prove_ms |-> Some(1000), verify_ms |-> Some(5000)],
     [prove_ms |-> Some(2000), verify_ms |-> Some(4000)],
     [prove_ms |-> Some(3000), verify_ms |-> Some(3001)],
     [prove_ms |-> Some(4000), verify_ms |-> Some(2000)],
     [prove_ms |-> Some(5000), verify_ms |-> Some(1000)],
     [prove_ms |-> None, verify_ms |-> None]}

\* the transcripts of 0..MaxN clients
StoredTranscripts ==
    {Some([round |-> 0, clients |-> cs]) :
        cs \in UNION {[1..n -> StoredClients] : n \in 0..MaxN}}

\* c.get(key, 0.0)
GetMs(v) == IF v = None THEN 0 ELSE v[1]

\* sorted(xs): insertion of the last element into the sorted rest
RECURSIVE sorted(_)
sorted(xs) ==
    IF Len(xs) <= 1 THEN xs
    ELSE LET rest == sorted(SubSeq(xs, 1, Len(xs) - 1))
             x == xs[Len(xs)]
             below == SelectSeq(rest, LAMBDA y : y <= x)
             above == SelectSeq(rest, LAMBDA y : y > x)
         IN  below \o <<x>> \o above

\* round(statistics.median(xs), 2), xs not empty
median(xs) ==
    LET data == sorted(xs)
        n == Len(data)
    IN  IF n % 2 = 1 THEN Round2(data[n \div 2 + 1], 1)
        ELSE Round2(data[n \div 2] + data[n \div 2 + 1], 2)

\* an index taken at nine tenths of n instead of n - 1
P90Index_OfN(n) == IntTrunc(9 * n, 10)

\* int(0.9 * (n - 1)), 0-based
P90Index(n) == IntTrunc(9 * (n - 1), 10)

\* the smallest timing instead of the one at the p90 index
p90_Smallest(xs) == Round2(sorted(xs)[1], 1)

\* round(sorted(xs)[int(0.9 * (len(xs) - 1))], 2)
p90(xs) == Round2(sorted(xs)[P90Index(Len(xs)) + 1], 1)

\* prs and vrs of a transcript
Prs(t) == [k \in 1..Len(t.clients) |-> GetMs(t.clients[k].prove_ms)]
Vrs(t) == [k \in 1..Len(t.clients) |-> GetMs(t.clients[k].verify_ms)]

\* the row of a transcript with clients
Row(t) ==
    [round |-> t.round,
     prove_p50 |-> median(Prs(t)),
     verify_p50 |-> median(Vrs(t)),
     prove_p90 |-> p90(Prs(t)),
     verify_p90 |-> p90(Vrs(t))]

\* j = json.loads(p.read_text()) for one transcript of the run (each is
\* handled on its own)
ReadTranscript ==
    /\ pc = "table_timings"
    /\ doc' \in StoredTranscripts
    /\ pc' = "t_loaded"
    /\ UNCHANGED <<cfg, DIRECT, round_idx, attempt, rc_g, rc_p, rc_v,
                   prove_ms, verify_ms, roles, results, r, written, events,
                   drv, vdir, todo, errors, rows>>

\* the rest of the loop body, and the table is written
Aggregate ==
    /\ pc = "t_loaded"
    /\ rows' = IF Prs(doc[1]) # <<>> /\ Vrs(doc[1]) # <<>>
               THEN Append(rows, Row(doc[1]))
               ELSE rows
    /\ pc' = "t_done"
    /\ UNCHANGED <<cfg, DIRECT, round_idx, attempt, rc_g, rc_p, rc_v,
                   prove_ms, verify_ms, roles, results, r, written, events,
                   drv, vdir, todo, errors, doc>>

-----------------------------------------------------------------------------
(* Configurations *)

Attacks ==
    {None} \cup
    {Some([kind |-> k, fraction_malicious |-> f]) :
        k \in {"none", "scaling"}, f \in (-1)..(FracDen + 1)}

HookCfgs ==
    [rounds : {1}, clients : 0..MaxClients,
     zk : [enabled : BOOLEAN, batch_verify : BOOLEAN],
     signatures : BOOLEAN, attack : Attacks]

RunnerCfgs ==
    [rounds : 0..MaxRounds, clients : 1..2,
     zk : [enabled : BOOLEAN, batch_verify : BOOLEAN],
     signatures : {FALSE}, attack : {None}]

\* the base configuration run_attacks.main reads
AttacksCfgs ==
    [rounds : {1}, clients : {1},
     zk : [enabled : {TRUE}, batch_verify : {FALSE}],
     signatures : {FALSE}, attack : {None}]

\* the configuration of a behaviour of an offline tool, which reads none
NoCfg ==
    [rounds |-> 0, clients |-> 0,
     zk |-> [enabled |-> FALSE, batch_verify |-> FALSE],
     signatures |-> FALSE, attack |-> None]

Init ==
    /\ \/ pc = "run_round" /\ cfg \in HookCfgs /\ DIRECT \in BOOLEAN
             /\ runs = <<>> /\ vdir = {} /\ doc = None
       \/ pc = "main" /\ cfg \in RunnerCfgs /\ DIRECT = FALSE
             /\ runs = <<ArtDir(0)>> /\ vdir = {} /\ doc = None
       \/ pc = "run_attacks" /\ cfg \in AttacksCfgs /\ DIRECT = FALSE
             /\ runs = <<>> /\ vdir = {} /\ doc = None
       \/ pc = "validate" /\ cfg = NoCfg /\ DIRECT = FALSE
             /\ runs = <<>> /\ vdir \in RunDirs /\ doc = None
       \/ pc = "table_timings" /\ cfg = NoCfg /\ DIRECT = FALSE
             /\ runs = <<>> /\ vdir = {} /\ doc = None
    /\ todo = {}
    /\ errors = <<>>
    /\ rows = <<>>
    /\ now = 0
    /\ atk = 0
    /\ files = {}
    /\ round_idx = 0
    /\ attempt = 1
    /\ rc_g = 0 /\ rc_p = 0 /\ rc_v = 0
    /\ prove_ms = 0 /\ verify_ms = 0
    /\ roles = <<>>
    /\ results = <<>>
    /\ r = 0
    /\ written = <<>>
    /\ events = <<>>

-----------------------------------------------------------------------------
(* hooks.run_round *)

\* entry of run_round up to the first backend call, or to the return when
\* no backend call is made
RunRoundEnter ==
    /\ pc = "run_round"
    /\ \E n \in 0..MaxRoundIdx :
        /\ round_idx' = n
        /\ IF DIRECT /\ HAVE_DIRECT /\ use_zk(cfg)
           THEN \E pms \in Elapsed, vms \in Elapsed :
                /\ results' = DirectResults(cfg, pms, vms)
                /\ roles' = RolesOf(cfg)
                /\ prove_ms' = pms /\ verify_ms' = vms
                /\ pc' = "returned"
           ELSE IF use_zk(cfg)
           THEN /\ pc' = "generate"
                /\ UNCHANGED <<results, roles, prove_ms, verify_ms>>
           ELSE /\ results' = SynthResults(cfg)
                /\ pc' = "returned"
                /\ UNCHANGED <<roles, prove_ms, verify_ms>>
    /\ UNCHANGED drv
    /\ UNCHANGED <<cfg, DIRECT, attempt, rc_g, rc_p, rc_v, r, written, events>>
    /\ UNCHANGED tool

\* rc_g, prove_ms, _ = _call_cli_generate(round_idx, cfg)
CallCliGenerate ==
    /\ pc = "generate"
    /\ \E rc \in ExitCodes, ms \in Elapsed :
        /\ events' = events \o CliCall("generate", round_idx, rc)
        /\ rc_g' = rc
        /\ prove_ms' = ms
    /\ attempt' = 1
    /\ pc' = AfterGenerate(cfg, rc_g')
    /\ UNCHANGED drv
    /\ UNCHANGED <<cfg, DIRECT, round_idx, rc_p, rc_v, verify_ms, roles,
                   results, r, written>>
    /\ UNCHANGED tool

\* one iteration of the loop of _call_cli_verify_batch
VerifyBatchAttempt ==
    /\ pc = "verify_batch"
    /\ \E rc \in ExitCodes, ms \in Elapsed :
        /\ events' = events \o BatchAttempt(attempts[attempt], round_idx, rc)
        /\ pc' = BatchNext(attempt, rc)
        /\ IF BatchNext(attempt, rc) = "build"
           THEN rc_v' = rc /\ verify_ms' = ms /\ UNCHANGED attempt
           ELSE attempt' = attempt + 1 /\ UNCHANGED <<rc_v, verify_ms>>
    /\ UNCHANGED drv
    /\ UNCHANGED <<cfg, DIRECT, round_idx, rc_g, rc_p, prove_ms, roles,
                   results, r, written>>
    /\ UNCHANGED tool

\* _call_cli_verify(round_idx, cfg), called by run_round or as the fallback
CallCliVerify ==
    /\ pc = "verify"
    /\ \E rc \in ExitCodes, ms \in Elapsed :
        /\ events' = events \o CliCall("verify", round_idx, rc)
        /\ rc_v' = rc
        /\ verify_ms' = ms
    /\ pc' = "build"
    /\ UNCHANGED drv
    /\ UNCHANGED <<cfg, DIRECT, round_idx, attempt, rc_g, rc_p, prove_ms,
                   roles, results, r, written>>
    /\ UNCHANGED tool

\* the loop that builds the records of a zk round, and the return
BuildResults ==
    /\ pc = "build"
    /\ roles' = RolesOf(cfg)
    /\ results' = CliResults(cfg, rc_g, rc_v, prove_ms, verify_ms)
    /\ pc' = "returned"
    /\ UNCHANGED drv
    /\ UNCHANGED <<cfg, DIRECT, round_idx, attempt, rc_g, rc_p, rc_v,
                   prove_ms, verify_ms, r, written, events>>
    /\ UNCHANGED tool

-----------------------------------------------------------------------------
(* round_runner.main *)

JStr(s) == [t |-> "str", v |-> s]
JList(l) == [t |-> "list", v |-> l]

\* the transcript dict of round n
Transcript(n, c, v, pms, vms) ==
    [round |-> n,
     params |-> c,
     clients |-> <<[id |-> ClientId(0),
                    commitment |-> "TODO",
                    proof_ok |-> (v = 0),
                    proof_size |-> 0,
                    prove_ms |-> Round2(pms, 10),
                    verify_ms |-> Round2(vms, 10)]>>,
     accepted_clients |-> <<IF v = 0 THEN JStr(ClientId(0)) ELSE JList(<<>>)>>,
     batch_verify |-> [enabled |-> c.zk.batch_verify]]

\* for r in range(int(cfg["rounds"])): the next position
LoopNext(n, c) == IF n < c.rounds THEN "r_generate" ELSE "done"

\* main looks at neither exit status before it builds the transcript
AfterVerify(p, v) == "r_write"

MainEnter ==
    /\ pc = "main"
    /\ r' = 0
    /\ pc' = LoopNext(0, cfg)
    /\ UNCHANGED drv
    /\ UNCHANGED <<cfg, DIRECT, round_idx, attempt, rc_g, rc_p, rc_v,
                   prove_ms, verify_ms, roles, results, written, events>>
    /\ UNCHANGED tool

\* run_cmd(FEDZK_CLI + ["generate", "--round", str(r)])
RunnerGenerate ==
    /\ pc = "r_generate"
    /\ \E rc \in ExitCodes, ms \in Elapsed :
        /\ events' = <<Call("generate", r, rc)>>
        /\ rc_p' = rc
        /\ prove_ms' = ms
    /\ pc' = "r_verify"
    /\ UNCHANGED drv
    /\ UNCHANGED <<cfg, DIRECT, round_idx, attempt, rc_g, rc_v, verify_ms,
                   roles, results, r, written>>
    /\ UNCHANGED tool

\* run_cmd(FEDZK_CLI + ["verify", "--round", str(r)])
RunnerVerify ==
    /\ pc = "r_verify"
    /\ \E rc \in ExitCodes, ms \in Elapsed :
        /\ events' = events \o <<Call("verify", r, rc)>>
        /\ rc_v' = rc
        /\ verify_ms' = ms
        /\ pc' = AfterVerify(rc_p, rc)
    /\ UNCHANGED drv
    /\ UNCHANGED <<cfg, DIRECT, round_idx, attempt, rc_g, rc_p, prove_ms,
                   roles, results, r, written>>
    /\ UNCHANGED tool

\* the transcript is built and write_text succeeds; the loop goes on
RunnerWrite ==
    /\ pc = "r_write"
    /\ written' = Append(written,
                    [name |-> TranscriptName(r),
                     complete |-> TRUE,
                     doc |-> Transcript(r, cfg, rc_v, prove_ms, verify_ms)])
    /\ files' = files \cup {RunFile(r)}
    /\ r' = r + 1
    /\ pc' = LoopNext(r + 1, cfg)
    /\ UNCHANGED <<now, runs, atk>>
    /\ UNCHANGED <<cfg, DIRECT, round_idx, attempt, rc_g, rc_p, rc_v,
                   prove_ms, verify_ms, roles, results, events>>
    /\ UNCHANGED tool

\* write_text raises OSError: on open (no file) or while writing (the file
\* was truncated and holds part of the document); main does not catch it
RunnerWriteFails ==
    /\ pc = "r_write"
    /\ \/ written' = written /\ UNCHANGED files
       \/ /\ written' = Append(written,
                          [name |-> TranscriptName(r),
                           complete |-> FALSE,
                           doc |-> Transcript(r, cfg, rc_v, prove_ms,
                                              verify_ms)])
          /\ files' = files \cup {RunFile(r)}
    /\ pc' = "write_error"
    /\ UNCHANGED <<now, runs, atk>>
    /\ UNCHANGED <<cfg, DIRECT, round_idx, attempt, rc_g, rc_p, rc_v,
                   prove_ms, verify_ms, roles, results, r, events>>
    /\ UNCHANGED tool

-----------------------------------------------------------------------------
(* run_attacks.main *)

\* ATTACKS: kind and fraction_malicious 0.25 of each entry
ATTACKS ==
    <<[kind |-> "scaling", fraction_malicious |-> FracDen \div 4],
      [kind |-> "sign_flip", fraction_malicious |-> FracDen \div 4],
      [kind |-> "sparse_poison", fraction_malicious |-> FracDen \div 4]>>

\* run_attacks.main is at the top of its loop: at its start, or after
\* subprocess.run returned (check=False: whatever the status was)
AtLoopTop ==
    \/ pc = "run_attacks"
    \/ atk > 0 /\ pc \in {"done", "write_error"}

\* one iteration up to the start of the round_runner process: the module is
\* imported, ART is taken from the clock and its directories are made with
\* exist_ok=True
AttacksLaunch ==
    /\ AtLoopTop
    /\ atk < Len(ATTACKS)
    /\ atk' = atk + 1
    /\ cfg' = [cfg EXCEPT !.attack = Some(ATTACKS[atk + 1])]
    /\ runs' = Append(runs, ArtDir(now))
    /\ pc' = "main"
    /\ r' = 0 /\ written' = <<>> /\ events' = <<>>
    /\ rc_p' = 0 /\ rc_v' = 0 /\ prove_ms' = 0 /\ verify_ms' = 0
    /\ UNCHANGED <<DIRECT, round_idx, attempt, rc_g, roles, results, now,
                   files>>
    /\ UNCHANGED tool

\* the loop over ATTACKS is exhausted; the last round_runner process has
\* exited and its state is gone
AttacksDone ==
    /\ AtLoopTop
    /\ atk = Len(ATTACKS)
    /\ pc' = "attacks_done"
    /\ r' = 0 /\ written' = <<>> /\ events' = <<>>
    /\ rc_p' = 0 /\ rc_v' = 0 /\ prove_ms' = 0 /\ verify_ms' = 0
    /\ UNCHANGED <<cfg, DIRECT, round_idx, attempt, rc_g, roles, results,
                   drv>>
    /\ UNCHANGED tool

\* time passes while run_attacks.main runs
Tick ==
    /\ pc = "run_attacks" \/ (atk > 0 /\ pc # "attacks_done")
    /\ now < MaxNow
    /\ now' = now + 1
    /\ UNCHANGED <<cfg, DIRECT, pc, round_idx, attempt, rc_g, rc_p, rc_v,
                   prove_ms, verify_ms, roles, results, r, written, events,
                   runs, atk, files>>
    /\ UNCHANGED tool

-----------------------------------------------------------------------------

Next ==
    \/ RunRoundEnter
    \/ CallCliGenerate
    \/ VerifyBatchAttempt
    \/ CallCliVerify
    \/ BuildResults
    \/ MainEnter
    \/ RunnerGenerate
    \/ RunnerVerify
    \/ RunnerWrite
    \/ RunnerWriteFails
    \/ AttacksLaunch
    \/ AttacksDone
    \/ Tick
    \/ ValidateEnter
    \/ ValidateFile
    \/ ValidateReport
    \/ ReadTranscript
    \/ Aggregate

Spec == Init /\ [][Next]_vars

\* a step of round_runner.main
RunnerStep ==
    \/ MainEnter
    \/ RunnerGenerate
    \/ RunnerVerify
    \/ RunnerWrite
    \/ RunnerWriteFails

\* the interpreter runs the next statement of main, and every backend call
\* returns
FairSpec == Spec /\ WF_vars(RunnerStep)

-----------------------------------------------------------------------------
(* Properties *)

IsCall(e) == e.kind = "call"
IsBatchCall(e) == IsCall(e) /\ e.what \in Range(attempts)
IsWarning(e) == e.kind = "log" /\ e.what = "warning"

\* the entry point that runs is hooks.run_round
InRunRound ==
    pc \in {"run_round", "generate", "verify_batch", "verify", "build",
            "returned"}

\* the backend invocations of the round in progress, in order
Calls == SelectSeq(events, IsCall)
Warnings == SelectSeq(events, IsWarning)

\* run_round has returned from (or is past) its verify call of a zk round
\* with batch_verify set
BatchReturned ==
    pc \in {"build", "returned"} /\ use_zk(cfg) /\ cfg.zk.batch_verify

\* C1: fallback monotonicity of _call_cli_verify_batch.  It returns a
\* non-zero status only if its last invocation was the plain `verify` and
\* that invocation returned this non-zero status; a batch form that exits 0
\* is the last invocation made and the status returned is 0.
C1_FallbackMonotone ==
    /\ (BatchReturned /\ rc_v # 0) =>
          /\ Calls[Len(Calls)].what = "verify"
          /\ Calls[Len(Calls)].rc = rc_v
    /\ \A i \in 1..Len(Calls) :
          (IsBatchCall(Calls[i]) /\ Calls[i].rc = 0) =>
              /\ i = Len(Calls)
              /\ BatchReturned
              /\ rc_v = 0

\* both batch forms and the plain verify failed: verify_batch returned failure
C1_Witness ==
    /\ BatchReturned
    /\ rc_v # 0
    /\ Len(Calls) = 4
    /\ Calls[2].what = "verify-batch" /\ Calls[3].what = "verify --batch"

\* the client records of the zk round that has just been produced: of
\* run_round after its return, of round_runner.main after the write
ZkRoundDone ==
    \/ pc = "returned" /\ use_zk(cfg)
    \/ pc \in {"r_generate", "done"} /\ written # <<>> /\ cfg.zk.enabled

ZkRoundClients ==
    IF pc = "returned" THEN results ELSE written[Len(written)].doc.clients

ZkGenerateRc == IF pc = "returned" THEN rc_g ELSE rc_p

\* C2: in a zk-enabled round every client record has proof_ok true exactly
\* when the generate invocation exited 0 and the verify invocation exited 0.
C2_RoundSuccessIsAnd ==
    ZkRoundDone =>
        \A k \in 1..Len(ZkRoundClients) :
            ZkRoundClients[k].proof_ok <=> (ZkGenerateRc = 0 /\ rc_v = 0)

\* the ids, in order, of the client records with proof_ok
RECURSIVE AcceptedIds(_)
AcceptedIds(cs) ==
    IF cs = <<>> THEN <<>>
    ELSE (IF cs[1].proof_ok THEN <<JStr(cs[1].id)>> ELSE <<>>)
            \o AcceptedIds(Tail(cs))

\* C3: in every transcript written, accepted_clients is exactly the list of
\* the ids (strings) of the clients with proof_ok, empty when there is none.
C3_AcceptedAreProofOk ==
    \A k \in 1..Len(written) :
        written[k].doc.accepted_clients = AcceptedIds(written[k].doc.clients)

\* C4: every ClientResult returned by run_round has a reject_reason that is
\* present and non-empty exactly when proof_ok is false.
C4_RejectReasonIffNotOk ==
    \A k \in 1..Len(results) :
        (results[k].reject_reason # None /\ results[k].reject_reason[1] # <<>>)
            <=> ~results[k].proof_ok

\* a zk round that failed: a record with proof_ok false carries its reason
C4_Witness ==
    /\ pc = "returned"
    /\ \E k \in 1..Len(results) :
          ~results[k].proof_ok /\ results[k].reject_reason # None

\* the number of clients labelled malicious
Malicious == Cardinality({k \in 1..Len(roles) : roles[k] = "malicious"})

RunCompletes ==
    <>(\/ pc = "write_error"
       \/ pc = "done" /\ Len(written) = cfg.rounds /\ r = cfg.rounds)

\* the clients of the zk round just written are rejected if its generate or
\* its verify invocation failed
FailedRoundRejected ==
    (pc \in {"r_generate", "done"} /\ written # <<>> /\ cfg.zk.enabled
        /\ (rc_p # 0 \/ rc_v # 0)) =>
        \A k \in 1..Len(written[Len(written)].doc.clients) :
            ~written[Len(written)].doc.clients[k].proof_ok

\* C6: backend failures never abort the run.  Whatever the backend returns,
\* and unless a write fails, the run reaches done with exactly `rounds`
\* transcripts; a round whose generate or verify failed has its clients
\* marked rejected, and the next round is still executed.
C6_FailuresNeverAbort ==
    (pc = "main") => (RunCompletes /\ []FailedRoundRejected)

\* the digits of a transcript file name
NameDigits(name) == SubSeq(name, 2, Len(name) - 1)

\* C7: the k-th transcript written has round k-1, its file name holds that
\* index zero-padded, at most `rounds` are written and no name twice.
C7_RoundIndexIsPosition ==
    /\ Len(written) <= cfg.rounds
    /\ \A k \in 1..Len(written) :
          /\ written[k].doc.round = k - 1
          /\ written[k].name[1] = "round_"
          /\ written[k].name[Len(written[k].name)] = ".json"
          /\ Len(NameDigits(written[k].name)) >= PadWidth
          /\ DigitsValue(NameDigits(written[k].name)) = written[k].doc.round
    /\ \A j, k \in 1..Len(written) :
          written[j].name = written[k].name => j = k

C7_Witness ==
    /\ pc = "done"
    /\ Len(written) = 2
    /\ written[2].name = <<"round_", 0, 0, 1, ".json">>
    /\ written[2].doc.round = 1

\* C8: with zk disabled no backend invocation is made, and the round yields
\* exactly `clients` records, each with proof_ok and zero timings.
C8_NoBackendWhenZkOff ==
    ~cfg.zk.enabled =>
        /\ events = <<>>
        /\ pc = "returned" =>
              /\ Len(results) = cfg.clients
              /\ \A k \in 1..Len(results) :
                    /\ results[k].proof_ok
                    /\ results[k].prove_ms = 0
                    /\ results[k].verify_ms = 0

\* the list of client records of a round, of run_round or of a transcript
ClientLists ==
    (IF pc = "returned" THEN {results} ELSE {})
        \cup {written[k].doc.clients : k \in 1..Len(written)}

\* C9: the clients list of a round holds one record per client index
\* 0..clients-1, in index order, the i-th with id "c<i>".
C9_OneRecordPerClient ==
    \A cs \in ClientLists :
        /\ Len(cs) = cfg.clients
        /\ \A k \in 1..Len(cs) :
              /\ cs[k].id[1] = "c"
              /\ DigitsValue(Tail(cs[k].id)) = k - 1
        /\ \A j, k \in 1..Len(cs) : cs[j].id = cs[k].id => j = k

\* C10: in _call_cli_verify_batch a warning is logged right after each batch
\* invocation form that exits non-zero and never otherwise; the fallback
\* plain verify is invoked only after two warnings, and no warning follows it.
C10_WarningPerFailedAttempt ==
    /\ \A i \in 1..Len(events) :
          /\ (IsBatchCall(events[i]) /\ events[i].rc # 0) =>
                (i < Len(events) /\ IsWarning(events[i + 1]))
          /\ IsWarning(events[i]) =>
                (i > 1 /\ IsBatchCall(events[i - 1]) /\ events[i - 1].rc # 0)
    /\ (BatchReturned /\ Calls[2].rc = 0) => Warnings = <<>>
    /\ \A i \in 1..Len(events) :
          (InRunRound /\ cfg.zk.batch_verify /\ IsCall(events[i])
             /\ events[i].what = "verify")
            => /\ Len(SelectSeq(SubSeq(events, 1, i - 1), IsWarning)) = 2
               /\ Len(Warnings) = 2

\* both batch forms fail, the plain verify succeeds: two warnings before the
\* fallback, and every client of the round is accepted
C10_Witness ==
    /\ pc = "returned"
    /\ cfg.zk.batch_verify
    /\ Len(Warnings) = 2
    /\ Calls[Len(Calls)].what = "verify" /\ Calls[Len(Calls)].rc = 0
    /\ results # <<>>
    /\ \A k \in 1..Len(results) : results[k].proof_ok

\* fraction_malicious of the configuration lies outside [0,1]
FractionOutOfRange ==
    /\ cfg.attack # None
    /\ \/ cfg.attack[1].fraction_malicious < 0
       \/ cfg.attack[1].fraction_malicious > FracDen

\* C11: a configuration whose fraction_malicious is outside [0,1] is
\* rejected before any round executes: no backend invocation is made, no
\* client is labelled, no record is built and no transcript is written.
C11_BadFractionRejected ==
    FractionOutOfRange =>
        /\ events = <<>>
        /\ roles = <<>>
        /\ results = <<>>
        /\ written = <<>>
        /\ pc \notin {"generate", "verify", "verify_batch", "build", "returned"}

\* the positions of round_runner.main inside round r
InRunnerRound == pc \in {"r_generate", "r_verify", "r_write"}

\* C13: a transcript write failure is fatal and atomic.  After a failed
\* write the run has stopped (no later round is invoked or written) and
\* every file is a complete document; a round starts only after the writes
\* of all earlier rounds succeeded.
C13_WriteFailureAtomic ==
    /\ \A k \in 1..Len(written) : written[k].complete
    /\ pc = "write_error" =>
          /\ Len(written) <= r + 1
          /\ \A i \in 1..Len(events) : events[i].round <= r
    /\ InRunnerRound =>
          /\ Len(written) = r
          /\ \A k \in 1..Len(written) : written[k].doc.round = k - 1

IsGenerate(e) == IsCall(e) /\ e.what = "generate"
IsVerifyType(e) == IsCall(e) /\ (e.what = "verify" \/ IsBatchCall(e))

\* the round whose backend invocations `events` holds
CurrentRound ==
    IF InRunRound THEN round_idx
    ELSE IF pc = "r_generate" \/ pc = "done" THEN r - 1
    ELSE r

\* the verify call of the round in progress has returned
VerifyReturned ==
    \/ pc \in {"build", "returned"} /\ use_zk(cfg)
    \/ pc \in {"r_write", "write_error"}
    \/ pc \in {"r_generate", "done"} /\ r > 0

\* C16: in a round that invokes the backend, generate is invoked exactly
\* once and before every verify-type invocation; once the verify step has
\* returned a verify-type invocation was made, whatever generate returned;
\* every invocation is of the round in progress, none of a later round.
C16_GenerateOnceThenVerify ==
    /\ \A i \in 1..Len(Calls) :
          /\ IsGenerate(Calls[i]) <=> i = 1
          /\ i > 1 => IsVerifyType(Calls[i])
          /\ Calls[i].round = CurrentRound
    /\ VerifyReturned =>
          /\ Len(Calls) >= 2
          /\ IsGenerate(Calls[1])
          /\ IsVerifyType(Calls[Len(Calls)])
    /\ (cfg.zk.batch_verify /\ pc \in {"build", "returned"} /\ use_zk(cfg)) =>
          Calls[2].what = attempts[1]

\* generate failed and the verify_batch chain was still run to its end
C16_Witness ==
    /\ pc = "returned"
    /\ rc_g # 0
    /\ cfg.zk.batch_verify
    /\ Len(Calls) = 4
    /\ IsGenerate(Calls[1]) /\ Calls[1].rc # 0

\* C12: every round_runner process has a run directory of its own: the
\* directories of two processes differ, and no transcript file is written
\* by two processes.
C12_DistinctRunDirs ==
    /\ \A i, j \in 1..Len(runs) : runs[i] = runs[j] => i = j
    /\ \A f, g \in files :
          (f.dir = g.dir /\ f.name = g.name) => f.owner = g.owner

\* the validator has ended: a verdict, or the uncaught error of json.loads
ValidatorEnded == pc \in {"v_valid", "v_invalid", "v_crash"}

\* the process ends with a non-zero status
ReportsInvalid == pc \in {"v_invalid", "v_crash"}

\* what a file of the directory violates: the required properties it
\* lacks, or being no JSON document at all
ViolationsOf(f) == IF f.parses THEN f.missing ELSE {"not JSON"}

\* the number of entries of the reported list that name file f and violation v
EntriesFor(f, v) ==
    Cardinality({k \in 1..Len(errors) : errors[k][1] = f.name
                                        /\ (f.parses => errors[k][3] = v)})

\* C14: the validator validates every file of the directory, the list it
\* reports holds exactly one "<file>: <message>" entry per violation of each
\* file, and it reports the directory invalid iff some file has a violation
C14_ValidatorReportsAll ==
    ValidatorEnded =>
        /\ todo = {}
        /\ \A f \in vdir : \A v \in ViolationsOf(f) : EntriesFor(f, v) = 1
        /\ \A k \in 1..Len(errors) :
              \E f \in vdir : errors[k][1] = f.name /\ ViolationsOf(f) # {}
        /\ ReportsInvalid <=> \E f \in vdir : ViolationsOf(f) # {}

\* the same for the directories whose files are all JSON documents
C14_ParseableDirs ==
    (\A f \in vdir : f.parses) => C14_ValidatorReportsAll

\* the prove timings the aggregator read
AggPrs == Prs(doc[1])

\* the number of timings of xs below v, and not above v
CountBelow(xs, v) == Cardinality({k \in 1..Len(xs) : xs[k] < v})
CountUpTo(xs, v) == Cardinality({k \in 1..Len(xs) : xs[k] <= v})

\* v is the element at 0-based index i of xs in ascending order
IsOrderStatistic(xs, i, v) ==
    /\ \E k \in 1..Len(xs) : xs[k] = v
    /\ CountBelow(xs, v) <= i
    /\ i < CountUpTo(xs, v)

\* floor(0.9 * (n - 1)): the largest i with 10 * i <= 9 * (n - 1)
FloorNineTenths(n, i) ==
    /\ 10 * i <= 9 * (n - 1)
    /\ 9 * (n - 1) < 10 * (i + 1)

\* the timings 10, 20, 30, 40, 50 ms in some order
IsExample(xs) ==
    /\ Len(xs) = 5
    /\ Range(xs) = {1000, 2000, 3000, 4000, 5000}

\* C15: for a round with n >= 1 timings, the p90 written is the element at
\* 0-based index floor(0.9 * (n - 1)) of the timings in ascending order, an
\* index within 0..n-1; timings 10, 20, 30, 40, 50 in any order give 40
C15_P90IsOrderStatistic ==
    (pc = "t_done" /\ Len(AggPrs) >= 1) =>
        /\ Len(rows) = 1
        /\ \E i \in 0..(Len(AggPrs) - 1) :
              /\ FloorNineTenths(Len(AggPrs), i)
              /\ IsOrderStatistic(AggPrs, i, rows[1].prove_p90)
              /\ IsOrderStatistic(Vrs(doc[1]), i, rows[1].verify_p90)
        /\ IsExample(AggPrs) => rows[1].prove_p90 = 4000

\* the example's timings, read in an order that is not ascending, gave 40
C15_Witness ==
    /\ pc = "t_done"
    /\ IsExample(AggPrs)
    /\ AggPrs[1] = 5000
    /\ AggPrs[5] = 4000
    /\ rows[1].prove_p90 = 4000

\* C17 as stated: for every round with n >= 1 clients the p90 written is
\* not below the p50 written, for prove and for verify timings
C17_P90AtLeastP50 ==
    (pc = "t_done" /\ Len(AggPrs) >= 1) =>
        /\ rows[1].prove_p90 >= rows[1].prove_p50
        /\ rows[1].verify_p90 >= rows[1].verify_p50

\* the smaller of two timings
Min2(xs) == IF xs[1] <= xs[2] THEN xs[1] ELSE xs[2]

\* C17: for every round with n = 1 or n >= 3 clients the p90 written is not
\* below the p50 written; with n = 2 the p90 is the smaller of the two
\* timings, which is not above the p50
C17_P90AtLeastP50ExceptPairs ==
    (pc = "t_done" /\ Len(AggPrs) >= 1) =>
        IF Len(AggPrs) # 2
        THEN /\ rows[1].prove_p90 >= rows[1].prove_p50
             /\ rows[1].verify_p90 >= rows[1].verify_p50
        ELSE /\ rows[1].prove_p90 = Min2(AggPrs)
             /\ rows[1].verify_p90 = Min2(Vrs(doc[1]))
             /\ rows[1].prove_p90 <= rows[1].prove_p50
             /\ rows[1].verify_p90 <= rows[1].verify_p50

\* a round of four clients whose p90 is above its p50
C17_Witness ==
    /\ pc = "t_done"
    /\ Len(AggPrs) = 4
    /\ rows[1].prove_p90 > rows[1].prove_p50
    /\ rows[1].verify_p90 > rows[1].verify_p50

====
